---- MODULE Spec2Model ----
(***************************************************************************)
(* Orientation engine of externals/acceleration/pc/pc.py:                  *)
(*   orient_v_structure  (v-structure orienter),                           *)
(*   apply_rules         (Meek rule propagation, Rules 1-3),               *)
(*   the edge-mark encoder at the end of cmiknn_gpu.                       *)
(* A graph is the set of its arcs <<source, target>> over the vertices     *)
(* 0 .. num_nodes-1, as a networkx DiGraph without attributes is.          *)
(***************************************************************************)
EXTENDS Integers, Sequences, FiniteSets, TLC

VARIABLES num_nodes, skeleton, separation_sets, dag, dag2, dag_in,
          graph_changed, todo, pc, calls, adj_matrix,
          indep_test, GPU_ACCELERATION_AVAILABLE, depth, entry, raised,
          message, effects, result, sepsets, run, first_matrix

\* The call of accelerated_pc or cmiknn_gpu around the orientation engine:
\* its arguments, the module flag, what it raised, which external calls it
\* made, what it returned, the dictionary of separation sets it was given,
\* and the output of an earlier run on the same input.
callVars == <<indep_test, GPU_ACCELERATION_AVAILABLE, depth, entry, raised,
              message, effects, result, sepsets, run, first_matrix>>

vars == <<num_nodes, skeleton, separation_sets, dag, dag2, dag_in,
          graph_changed, todo, pc, calls, adj_matrix, callVars>>

\* Largest number of variables of a pipeline run (skeleton + separation sets).
MaxNodes == 5

\* Largest number of vertices of a graph handed directly to apply_rules.
MaxRuleNodes == 4

\* apply_rules is called at most this many times on one graph.
MaxCalls == 2

\* Largest number of variables of the data handed to accelerated_pc.
MaxDispatchNodes == 4

\* The depth argument ranges over -MaxDepth .. MaxDepth.
MaxDepth == 2

\* Largest number of variables when the triples of orient_v_structure are
\* processed in an arbitrary order.
MaxOrderNodes == 4

Nodes == 0 .. (num_nodes - 1)

Arcs == {e \in Nodes \X Nodes : e[1] # e[2]}

----------------------------------------------------------------------------
(* Graph predicates local to apply_rules.                                  *)

has_edge(g, v_1, v_2) == <<v_1, v_2>> \in g

non_adjacent(g, v_1, v_2) == ~has_edge(g, v_1, v_2) /\ ~has_edge(g, v_2, v_1)

existing_edge_is_directed_only(g, v_1, v_2) == ~has_edge(g, v_2, v_1)

undirected(g, v_1, v_2) == has_edge(g, v_1, v_2) /\ has_edge(g, v_2, v_1)

successors(g, v) == {w \in Nodes : has_edge(g, v, w)}

predecessors(g, v) == {w \in Nodes : has_edge(g, w, v)}

\* The sort key of an edge in a graph of n vertices.
column_major_edge_ordering(n, edge) == edge[2] * n + edge[1]

\* The largest vertex count of any run.
NodeLimit == IF MaxNodes > MaxRuleNodes THEN MaxNodes ELSE MaxRuleNodes

\* The pairs (v_1, v_2) of n vertices sorted by column_major_edge_ordering:
\* the keys are the numbers 0 .. n*n-1, each the key of one pair.
EdgeOrder == [n \in 1 .. NodeLimit |->
                [i \in 1 .. (n * n) |->
                   CHOOSE e \in (0 .. (n - 1)) \X (0 .. (n - 1)) :
                       column_major_edge_ordering(n, e) = i - 1]]

\* The triples in ascending order of v_1, then v_2, then v_3.
TripleOrderRowMajor == [n \in 1 .. NodeLimit |->
                          [i \in 1 .. (n * n * n) |->
                             <<((i - 1) \div n) \div n, ((i - 1) \div n) % n,
                               (i - 1) % n>>]]

\* The order of two nested loops: pairs by column-major key, then a third
\* vertex ascending.
TripleOrder == [n \in 1 .. NodeLimit |->
                  [i \in 1 .. (n * n * n) |->
                     <<EdgeOrder[n][((i - 1) \div n) + 1][1],
                       EdgeOrder[n][((i - 1) \div n) + 1][2],
                       (i - 1) % n>>]]

\* The order of three nested loops: pairs by column-major key, then two more
\* vertices in lexicographic order.
QuadOrder == [n \in 1 .. NodeLimit |->
                [i \in 1 .. (n * n * n * n) |->
                   <<TripleOrder[n][((i - 1) \div n) + 1][1],
                     TripleOrder[n][((i - 1) \div n) + 1][2],
                     TripleOrder[n][((i - 1) \div n) + 1][3],
                     (i - 1) % n>>]]

\* The triples of TripleOrder with v_1 # v_2, v_2 # v_3 and v_1 # v_3, in the
\* same order: a graph has no self-loops, so an edge (v_1, v_2) has
\* v_1 # v_2 and a neighbour v_3 of v_2 has v_3 # v_2, and the loops skip
\* v_3 = v_1.
TriplesOf(n) ==
    SelectSeq(TripleOrder[n],
              LAMBDA t : t[1] # t[2] /\ t[2] # t[3] /\ t[1] # t[3])

\* The quadruples of QuadOrder with v_1 # v_2, v_3 < v_4 and v_3, v_4 not in
\* {v_1, v_2}, in the same order: combinations(C, 2) of the sorted C yields
\* v_3 < v_4, and the members of C are neighbours of v_1 and of v_2.
QuadsOf(n) ==
    SelectSeq(QuadOrder[n],
              LAMBDA q : /\ q[1] # q[2]
                         /\ q[3] < q[4]
                         /\ {q[3], q[4]} \cap {q[1], q[2]} = {})

\* TriplesOf(n) and QuadsOf(n) for n = 1 .. NodeLimit, as sequences indexed
\* by n.
LoopTriples ==
    SelectSeq([n \in 1 .. NodeLimit |-> TriplesOf(n)], LAMBDA x : TRUE)

LoopQuads ==
    SelectSeq([n \in 1 .. NodeLimit |-> QuadsOf(n)], LAMBDA x : TRUE)

----------------------------------------------------------------------------
(* orient_v_structure                                                      *)

in_separation_set(v, v_1, v_2) == v \in separation_sets[v_1][v_2]

skeleton_non_adjacent(v_1, v_2) == <<v_1, v_2>> \notin skeleton

neighbors(v) == {w \in Nodes : <<v, w>> \in skeleton}

\* The condition without the test of the separation set.
OrientCondNoSepset(v_1, v_2, v_3) ==
    /\ <<v_1, v_2>> \in skeleton
    /\ <<v_2, v_3>> \in skeleton
    /\ v_1 # v_3
    /\ <<v_1, v_3>> \notin skeleton

\* The condition if the first run emptied the store of separation sets: a
\* later run finds no vertex in any separation set.
OrientCondStoreConsumed(v_1, v_2, v_3) ==
    /\ OrientCondNoSepset(v_1, v_2, v_3)
    /\ \/ run > 1
       \/ ~(in_separation_set(v_2, v_1, v_3) \/ in_separation_set(v_2, v_3, v_1))

\* The condition under which the loop body of orient_v_structure runs for
\* the skeleton arc (v_1, v_2) and the neighbour v_3 of v_2.
OrientCond(v_1, v_2, v_3) ==
    /\ <<v_1, v_2>> \in skeleton
    /\ v_3 \in neighbors(v_2)
    /\ v_1 # v_3
    /\ skeleton_non_adjacent(v_1, v_3)
    /\ ~(in_separation_set(v_2, v_1, v_3) \/ in_separation_set(v_2, v_3, v_1))

\* The triples for which the body runs, in the order of the loops: skeleton
\* arcs by column-major key, then v_3 ascending.
OrientTriples ==
    SelectSeq(LoopTriples[num_nodes],
              LAMBDA t : OrientCond(t[1], t[2], t[3]))

\* The body with the two arcs only removed, none added.
OrientBodyRemoveOnly(g, v_1, v_2, v_3) == g \ {<<v_2, v_1>>, <<v_2, v_3>>}

\* add_edges_from([(v_1,v_2),(v_3,v_2)]); remove_edges_from([(v_2,v_1),(v_2,v_3)])
OrientBody(g, v_1, v_2, v_3) ==
    (g \cup {<<v_1, v_2>>, <<v_3, v_2>>}) \ {<<v_2, v_1>>, <<v_2, v_3>>}

----------------------------------------------------------------------------
(* apply_rules: the candidates of each rule, read from the snapshot dag2.  *)

\* The condition without the test that v_1 and v_3 are not adjacent.
Rule1CondShielded(g, v_1, v_2, v_3) ==
    /\ has_edge(g, v_1, v_2)
    /\ ~has_edge(g, v_2, v_1)
    /\ v_3 \in successors(g, v_2)
    /\ v_1 # v_3
    /\ has_edge(g, v_3, v_2)

Rule1Cond(g, v_1, v_2, v_3) ==
    /\ has_edge(g, v_1, v_2)
    /\ ~has_edge(g, v_2, v_1)
    /\ v_3 \in successors(g, v_2)
    /\ v_1 # v_3
    /\ has_edge(g, v_3, v_2)
    /\ non_adjacent(g, v_1, v_3)

Rule1Triples(g) ==
    SelectSeq(LoopTriples[num_nodes],
              LAMBDA t : Rule1Cond(g, t[1], t[2], t[3]))

\* The body with the two arcs exchanged: the edge is oriented v_3 -> v_2.
Rule1BodyReversed(g, v_2, v_3) == (g \cup {<<v_3, v_2>>}) \ {<<v_2, v_3>>}

\* add_edge(v_2, v_3); remove_edges_from([(v_3, v_2)])
Rule1Body(g, v_2, v_3) == (g \cup {<<v_2, v_3>>}) \ {<<v_3, v_2>>}

\* The condition for a loop over the pairs whose reverse arc is in the
\* graph, the arc (v_1, v_2) itself not required.
Rule2CondReverseArc(g, v_1, v_2, v_3) ==
    /\ has_edge(g, v_2, v_1)
    /\ v_3 \in (successors(g, v_1) \cap predecessors(g, v_2))
    /\ existing_edge_is_directed_only(g, v_1, v_3)
    /\ existing_edge_is_directed_only(g, v_3, v_2)

Rule2Cond(g, v_1, v_2, v_3) ==
    /\ has_edge(g, v_1, v_2)
    /\ has_edge(g, v_2, v_1)
    /\ v_3 \in (successors(g, v_1) \cap predecessors(g, v_2))
    /\ existing_edge_is_directed_only(g, v_1, v_3)
    /\ existing_edge_is_directed_only(g, v_3, v_2)

\* The Rule 2 loop left out.
Rule2TriplesNone(g) == <<>>

Rule2Triples(g) ==
    SelectSeq(LoopTriples[num_nodes],
              LAMBDA t : Rule2Cond(g, t[1], t[2], t[3]))

\* The body without its removal of the reverse arc.
Rule2BodyAddOnly(g, v_1, v_2) == g \cup {<<v_1, v_2>>}

\* The body with the two arcs exchanged: the edge is oriented v_2 -> v_1.
Rule2BodyReversed(g, v_1, v_2) == (g \cup {<<v_2, v_1>>}) \ {<<v_1, v_2>>}

\* add_edge(v_1, v_2); remove_edges_from([(v_2, v_1)])
Rule2Body(g, v_1, v_2) == (g \cup {<<v_1, v_2>>}) \ {<<v_2, v_1>>}

\* C of Rule 3 for the edge (v_1, v_2).
Rule3C(g, v_1, v_2) ==
    (successors(g, v_1) \cap predecessors(g, v_1))
        \cap (predecessors(g, v_2) \ successors(g, v_2))

\* The at most two smallest members of a set of vertices.
FirstTwo(C) == {c \in C : Cardinality({d \in C : d < c}) < 2}

\* The condition with only the first two vertices of the sorted C tested.
Rule3CondFirstTwo(g, v_1, v_2, v_3, v_4) ==
    /\ has_edge(g, v_1, v_2)
    /\ has_edge(g, v_2, v_1)
    /\ v_3 \in FirstTwo(Rule3C(g, v_1, v_2))
    /\ v_4 \in FirstTwo(Rule3C(g, v_1, v_2))
    /\ v_3 < v_4
    /\ non_adjacent(g, v_3, v_4)

Rule3Cond(g, v_1, v_2, v_3, v_4) ==
    /\ has_edge(g, v_1, v_2)
    /\ has_edge(g, v_2, v_1)
    /\ v_3 \in Rule3C(g, v_1, v_2)
    /\ v_4 \in Rule3C(g, v_1, v_2)
    /\ v_3 < v_4
    /\ non_adjacent(g, v_3, v_4)

\* The pairs (v_3, v_4) are those of itertools.combinations(sorted C, 2).
Rule3Quads(g) ==
    SelectSeq(LoopQuads[num_nodes],
              LAMBDA q : Rule3Cond(g, q[1], q[2], q[3], q[4]))

\* add_edge(v_1, v_2); remove_edges_from([(v_2, v_1)])
Rule3Body(g, v_1, v_2) == (g \cup {<<v_1, v_2>>}) \ {<<v_2, v_1>>}

\* A single pass: return whether or not the graph changed.
AfterPassOnce(changed) == "return"

\* "if not graph_changed: return", else the next iteration of while True.
AfterPass(changed) == IF changed THEN "rule1" ELSE "return"

----------------------------------------------------------------------------
(* The edge-mark encoder (cmiknn_gpu, fisherz_gpu_gpucsl).                 *)

ZeroMatrix == [i \in Nodes |-> [j \in Nodes |-> 0]]

\* adj_matrix[edge[0], edge[1]] = 1 for every edge
MarkEdges(g) == [i \in Nodes |-> [j \in Nodes |-> IF <<i, j>> \in g THEN 1 ELSE 0]]

\* The index pairs (i, j) of an n x n matrix in row-major order.
RowMajorOrder == [n \in 1 .. NodeLimit |->
                    [i \in 1 .. (n * n) |-> <<(i - 1) \div n, (i - 1) % n>>]]

\* np.where(adj_matrix == 1): the index pairs in row-major order.
WhereOne(m) ==
    SelectSeq(RowMajorOrder[num_nodes],
              LAMBDA p : m[p[1]][p[2]] = 1)

SetEntry(m, i, j, x) == [m EXCEPT ![i][j] = x]

\* The first if statement left out.
EncodeFirstIfSkipped(m, i, j) == m

\* The second if statement with the two marks exchanged.
EncodeSecondIfSwapped(m, i, j) ==
    IF m[i][j] = 1 /\ m[j][i] = 0
    THEN [m EXCEPT ![i][j] = 1, ![j][i] = -1]
    ELSE m

\* The two consecutive if statements of the loop body, for the pair (i, j).
EncodeFirstIf(m, i, j) ==
    IF m[i][j] = 1 /\ m[j][i] = 1
    THEN SetEntry(SetEntry(m, i, j, -1), j, i, -1)
    ELSE m

EncodeSecondIf(m, i, j) ==
    IF m[i][j] = 1 /\ m[j][i] = 0
    THEN SetEntry(SetEntry(m, i, j, -1), j, i, 1)
    ELSE m

\* The loop body with its second if statement left out.
EncodeBodyFirstOnly(m, i, j) == EncodeFirstIf(m, i, j)

EncodeBody(m, i, j) == EncodeSecondIf(EncodeFirstIf(m, i, j), i, j)

RECURSIVE EncodeLoop(_, _, _)
EncodeLoop(m, indices, k) ==
    IF k > Len(indices) THEN m
    ELSE EncodeLoop(EncodeBody(m, indices[k][1], indices[k][2]), indices, k + 1)

EncodeMatrix(g) == EncodeLoop(MarkEdges(g), WhereOne(MarkEdges(g)), 1)

----------------------------------------------------------------------------
(* Inputs.                                                                 *)

\* The unordered pairs of distinct vertices among 0 .. n-1.
PairsOf(n) == {p \in SUBSET (0 .. (n - 1)) : Cardinality(p) = 2}

\* nx.DiGraph(skeleton).to_directed() of a symmetric 0/1 matrix with zero
\* diagonal: both arcs of every adjacent pair.
BothArcs(n, edges) ==
    {e \in (0 .. (n - 1)) \X (0 .. (n - 1)) : e[1] # e[2] /\ {e[1], e[2]} \in edges}

\* The entries of the store that orient_v_structure can read: v is a common
\* neighbour of the non-adjacent pair p.
SepEntries(n, edges) ==
    {x \in (0 .. (n - 1)) \X PairsOf(n) :
        /\ x[2] \notin edges
        /\ \A w \in x[2] : {x[1], w} \in edges}

\* separation_sets[i][j] as filled symmetrically by cmiknn_gpu.
SepStore(n, entries) ==
    [i \in 0 .. (n - 1) |-> [j \in 0 .. (n - 1) |->
        {v \in 0 .. (n - 1) : <<v, {i, j}>> \in entries}]]

----------------------------------------------------------------------------
(* The pipeline of cmiknn_gpu: orient_v_structure, apply_rules, encoder.   *)

\* dag = nx.DiGraph(skeleton).to_directed(); orient_v_structure is entered.
Init ==
    /\ num_nodes \in 1 .. MaxNodes
    /\ \E edges \in SUBSET PairsOf(num_nodes) :
         /\ skeleton = BothArcs(num_nodes, edges)
         /\ \E entries \in SUBSET SepEntries(num_nodes, edges) :
              /\ separation_sets = SepStore(num_nodes, entries)
              /\ sepsets = [p \in PairsOf(num_nodes) \ edges |->
                              {v \in Nodes : <<v, p>> \in entries}]
    /\ dag = skeleton
    /\ dag2 = skeleton
    /\ dag_in = skeleton
    /\ graph_changed = FALSE
    /\ run = 1
    /\ todo = OrientTriples
    /\ pc = "orient"
    /\ calls = 0
    /\ adj_matrix = ZeroMatrix
    /\ indep_test = "cmiknn"
    /\ GPU_ACCELERATION_AVAILABLE = TRUE
    /\ depth = -1
    /\ entry = "cmiknn_gpu"
    /\ raised = "none"
    /\ message = {}
    /\ effects = <<"globals.init", "gpucmiknn.init_gpu", "gpu_single">>
    /\ result = "none"
    /\ first_matrix = ZeroMatrix

\* A caller of apply_rules that has not yet built its graph.
InitRules ==
    /\ num_nodes \in 1 .. MaxRuleNodes
    /\ dag = {}
    /\ skeleton = {}
    /\ separation_sets = SepStore(num_nodes, {})
    /\ dag2 = {}
    /\ dag_in = {}
    /\ graph_changed = FALSE
    /\ todo = <<>>
    /\ pc = "call"
    /\ calls = 0
    /\ adj_matrix = ZeroMatrix
    /\ indep_test = "cmiknn"
    /\ GPU_ACCELERATION_AVAILABLE = TRUE
    /\ depth = -1
    /\ entry = "apply_rules"
    /\ raised = "none"
    /\ message = {}
    /\ effects = <<>>
    /\ result = "none"
    /\ sepsets = [p \in {} |-> {}]
    /\ run = 1
    /\ first_matrix = ZeroMatrix

\* apply_rules(dag) is called on an arbitrary loop-free directed graph and
\* starts its first pass.
Call ==
    /\ pc = "call"
    /\ \E g \in SUBSET Arcs :
         /\ dag' = g
         /\ dag_in' = g
         /\ dag2' = g
         /\ todo' = Rule1Triples(g)
    /\ pc' = "rule1"
    /\ calls' = 1
    /\ graph_changed' = FALSE
    /\ UNCHANGED callVars
    /\ UNCHANGED <<num_nodes, skeleton, separation_sets, adj_matrix>>

\* One execution of the loop body of orient_v_structure.
OrientStep ==
    /\ pc = "orient"
    /\ todo # <<>>
    /\ dag' = OrientBody(dag, Head(todo)[1], Head(todo)[2], Head(todo)[3])
    /\ todo' = Tail(todo)
    /\ UNCHANGED callVars
    /\ UNCHANGED <<num_nodes, skeleton, separation_sets, dag2, dag_in,
                   graph_changed, pc, calls, adj_matrix>>

\* orient_v_structure returns and apply_rules(dag) starts its first pass.
OrientDone ==
    /\ pc = "orient"
    /\ todo = <<>>
    /\ pc' = "rule1"
    /\ calls' = 1
    /\ dag_in' = dag
    /\ dag2' = dag
    /\ graph_changed' = FALSE
    /\ todo' = Rule1Triples(dag)
    /\ UNCHANGED callVars
    /\ UNCHANGED <<num_nodes, skeleton, separation_sets, dag, adj_matrix>>

\* Rule 1, one candidate: applied only if v_2 - v_3 is still undirected in dag.
Rule1Step ==
    /\ pc = "rule1"
    /\ todo # <<>>
    /\ IF undirected(dag, Head(todo)[2], Head(todo)[3])
       THEN /\ dag' = Rule1Body(dag, Head(todo)[2], Head(todo)[3])
            /\ graph_changed' = TRUE
       ELSE UNCHANGED <<dag, graph_changed>>
    /\ todo' = Tail(todo)
    /\ UNCHANGED callVars
    /\ UNCHANGED <<num_nodes, skeleton, separation_sets, dag2, dag_in, pc,
                   calls, adj_matrix>>

\* End of the Rule 1 loop: dag2 = dag.copy() for Rule 2.
Rule1Done ==
    /\ pc = "rule1"
    /\ todo = <<>>
    /\ pc' = "rule2"
    /\ dag2' = dag
    /\ todo' = Rule2Triples(dag)
    /\ UNCHANGED callVars
    /\ UNCHANGED <<num_nodes, skeleton, separation_sets, dag, dag_in,
                   graph_changed, calls, adj_matrix>>

\* Rule 2, one candidate: applied without looking at dag.
Rule2Step ==
    /\ pc = "rule2"
    /\ todo # <<>>
    /\ dag' = Rule2Body(dag, Head(todo)[1], Head(todo)[2])
    /\ graph_changed' = TRUE
    /\ todo' = Tail(todo)
    /\ UNCHANGED callVars
    /\ UNCHANGED <<num_nodes, skeleton, separation_sets, dag2, dag_in, pc,
                   calls, adj_matrix>>

\* End of the Rule 2 loop: dag2 = dag.copy() for Rule 3.
Rule2Done ==
    /\ pc = "rule2"
    /\ todo = <<>>
    /\ pc' = "rule3"
    /\ dag2' = dag
    /\ todo' = Rule3Quads(dag)
    /\ UNCHANGED callVars
    /\ UNCHANGED <<num_nodes, skeleton, separation_sets, dag, dag_in,
                   graph_changed, calls, adj_matrix>>

\* Rule 3, one candidate: applied without looking at dag.
Rule3Step ==
    /\ pc = "rule3"
    /\ todo # <<>>
    /\ dag' = Rule3Body(dag, Head(todo)[1], Head(todo)[2])
    /\ graph_changed' = TRUE
    /\ todo' = Tail(todo)
    /\ UNCHANGED callVars
    /\ UNCHANGED <<num_nodes, skeleton, separation_sets, dag2, dag_in, pc,
                   calls, adj_matrix>>

\* End of a pass: return if nothing changed, else start the next pass.
Rule3Done ==
    /\ pc = "rule3"
    /\ todo = <<>>
    /\ pc' = AfterPass(graph_changed)
    /\ graph_changed' = FALSE
    /\ dag2' = dag
    /\ todo' = IF AfterPass(graph_changed) = "rule1" THEN Rule1Triples(dag) ELSE <<>>
    /\ UNCHANGED callVars
    /\ UNCHANGED <<num_nodes, skeleton, separation_sets, dag, dag_in, calls,
                   adj_matrix>>

\* After the first call returns: the edge-mark encoder builds adj_matrix.
Encode ==
    /\ pc = "return"
    /\ calls = 1
    /\ adj_matrix' = EncodeMatrix(dag)
    /\ pc' = "done"
    /\ UNCHANGED callVars
    /\ UNCHANGED <<num_nodes, skeleton, separation_sets, dag, dag2, dag_in,
                   graph_changed, todo, calls>>

\* apply_rules is called again on the graph it returned.
ReRun ==
    /\ pc = "done"
    /\ calls < MaxCalls
    /\ calls' = calls + 1
    /\ pc' = "rule1"
    /\ dag_in' = dag
    /\ dag2' = dag
    /\ graph_changed' = FALSE
    /\ todo' = Rule1Triples(dag)
    /\ UNCHANGED callVars
    /\ UNCHANGED <<num_nodes, skeleton, separation_sets, dag, adj_matrix>>

\* The later calls return to the caller.
Returned ==
    /\ pc = "return"
    /\ calls > 1
    /\ pc' = "done"
    /\ UNCHANGED callVars
    /\ UNCHANGED <<num_nodes, skeleton, separation_sets, dag, dag2, dag_in,
                   graph_changed, todo, calls, adj_matrix>>

----------------------------------------------------------------------------
(* accelerated_pc and its backends.                                        *)

\* The values of indep_test a caller passes: the identifiers of the
\* docstring, the identifiers of the branches, and one that is in neither.
Identifiers == {"fisherz", "chisq", "chi_square", "kci", "cmiknn", "gsq"}

\* indep_test in ["cmiknn"]
RequiresGpu(t) == t \in {"cmiknn"}

\* The if / elif chain taken for every identifier as if it were 'fisherz'.
BackendDefaultFisherz(t) == "fisherz_gpu_gpucsl"

\* The if / elif / else chain of accelerated_pc.
Backend(t) ==
    CASE t = "fisherz" -> "fisherz_gpu_gpucsl"
      [] t = "chisq"   -> "chi_square_gpu_gpucsl"
      [] t = "cmiknn"  -> "cmiknn_gpu"
      [] OTHER         -> "ValueError"

\* The identifiers named by the message of the ValueError.
NamedInValueError == {"fisherz", "chisq", "cmiknn"}

\* The check at the head of cmiknn_gpu left out.
cmiknn_gpu_unchecked == FALSE

\* "if not GPU_ACCELERATION_AVAILABLE" at the head of cmiknn_gpu.
cmiknn_gpu_unavailable == ~GPU_ACCELERATION_AVAILABLE

\* "if depth < 0: depth = data.shape[1]"
EffectiveDepth(d, n) == IF d < 0 THEN n ELSE d

\* globals.max_sepset_size (depth is an int, never None).
max_sepset_size(d, n) ==
    IF EffectiveDepth(d, n) < n - 2 THEN EffectiveDepth(d, n) ELSE n - 2

\* The end pairs of the unshielded triples of a skeleton: the non-adjacent
\* pairs with a common neighbour.
EndPairs(n, edges) == {x[2] : x \in SepEntries(n, edges)}

\* The dictionary gpu_single returns next to the skeleton: the pairs in
\* missing have no entry, every other non-adjacent pair has one. Of the
\* members of a separation set only the common neighbours of the pair are
\* kept, the others are never read.
SepDict(n, edges, missing, entries) ==
    [p \in (PairsOf(n) \ edges) \ missing |->
        {v \in 0 .. (n - 1) : <<v, p>> \in entries}]

\* separation_sets = np.full(..., -1) filled from sepsets.items(): a pair
\* without an entry keeps its row of -1, which holds no vertex.
ConvertSepsets(n, d) ==
    [i \in 0 .. (n - 1) |-> [j \in 0 .. (n - 1) |->
        IF {i, j} \in DOMAIN d THEN d[{i, j}] ELSE {}]]

\* A call of accelerated_pc, or of cmiknn_gpu directly, is about to start.
InitDispatch ==
    /\ num_nodes \in 1 .. MaxDispatchNodes
    /\ indep_test \in Identifiers
    /\ GPU_ACCELERATION_AVAILABLE \in BOOLEAN
    /\ depth \in (-MaxDepth) .. MaxDepth
    /\ entry \in {"accelerated_pc", "cmiknn_gpu"}
    /\ entry = "cmiknn_gpu" => indep_test = "cmiknn"
    /\ pc = entry
    /\ skeleton = {}
    /\ sepsets = [p \in {} |-> {}]
    /\ separation_sets = SepStore(num_nodes, {})
    /\ dag = {}
    /\ dag2 = {}
    /\ dag_in = {}
    /\ graph_changed = FALSE
    /\ todo = <<>>
    /\ calls = 0
    /\ adj_matrix = ZeroMatrix
    /\ raised = "none"
    /\ message = {}
    /\ effects = <<>>
    /\ result = "none"
    /\ run = 1
    /\ first_matrix = ZeroMatrix

\* accelerated_pc: the GPU check for 'cmiknn', then the if / elif chain.
accelerated_pc ==
    /\ pc = "accelerated_pc"
    /\ IF RequiresGpu(indep_test) /\ ~GPU_ACCELERATION_AVAILABLE
       THEN /\ raised' = "ImportError"
            /\ message' = {indep_test, "fisherz"}
            /\ pc' = "raised"
       ELSE IF Backend(indep_test) = "ValueError"
            THEN /\ raised' = "ValueError"
                 /\ message' = NamedInValueError
                 /\ pc' = "raised"
            ELSE /\ pc' = Backend(indep_test)
                 /\ UNCHANGED <<raised, message>>
    /\ UNCHANGED <<num_nodes, skeleton, separation_sets, dag, dag2, dag_in,
                   graph_changed, todo, calls, adj_matrix, indep_test,
                   GPU_ACCELERATION_AVAILABLE, depth, entry, effects, result,
                   sepsets, run, first_matrix>>

\* fisherz_gpu_gpucsl: GaussianPC(...).execute() returns some directed
\* graph on the variables, which is encoded and returned with info.
fisherz_gpu_gpucsl ==
    /\ pc = "fisherz_gpu_gpucsl"
    /\ effects' = Append(effects, "GaussianPC")
    /\ \E directed_graph \in SUBSET Arcs :
         /\ dag' = directed_graph
         /\ adj_matrix' = EncodeMatrix(directed_graph)
    /\ result' = "adj_matrix"
    /\ pc' = "returned"
    /\ UNCHANGED <<num_nodes, skeleton, separation_sets, dag2, dag_in,
                   graph_changed, todo, calls, indep_test,
                   GPU_ACCELERATION_AVAILABLE, depth, entry, raised, message,
                   sepsets, run, first_matrix>>

\* chi_square_gpu_gpucsl: DiscretePC(...).execute() returns some directed
\* graph, which is encoded; then info reads pc_result.PC_elapsed of the pair
\* (result, runtime) that was unpacked above, which raises AttributeError
\* unless the type of the pair has such an attribute, and in that case the
\* function returns directed_graph, not adj_matrix.
chi_square_gpu_gpucsl ==
    /\ pc = "chi_square_gpu_gpucsl"
    /\ effects' = Append(effects, "DiscretePC")
    /\ \E directed_graph \in SUBSET Arcs :
         /\ dag' = directed_graph
         /\ adj_matrix' = EncodeMatrix(directed_graph)
    /\ \/ /\ raised' = "AttributeError"
          /\ result' = "none"
          /\ pc' = "raised"
       \/ /\ raised' = "none"
          /\ result' = "directed_graph"
          /\ pc' = "returned"
    /\ UNCHANGED <<num_nodes, skeleton, separation_sets, dag2, dag_in,
                   graph_changed, todo, calls, indep_test,
                   GPU_ACCELERATION_AVAILABLE, depth, entry, message,
                   sepsets, run, first_matrix>>

\* cmiknn_gpu up to the skeleton search: the check of the GPU modules, the
\* global state, the GPU, and gpu_single, which returns some skeleton and
\* some dictionary of separation sets of at most max_sepset_size members.
cmiknn_gpu ==
    /\ pc = "cmiknn_gpu"
    /\ IF cmiknn_gpu_unavailable
       THEN /\ raised' = "ImportError"
            /\ pc' = "raised"
            /\ UNCHANGED <<effects, skeleton, sepsets>>
       ELSE /\ effects' = effects \o <<"globals.init", "gpucmiknn.init_gpu",
                                        "gpu_single">>
            /\ \E edges \in SUBSET PairsOf(num_nodes) :
                 \E missing \in SUBSET EndPairs(num_nodes, edges) :
                   \E entries \in SUBSET {x \in SepEntries(num_nodes, edges) :
                                             x[2] \notin missing} :
                      /\ \A p \in PairsOf(num_nodes) :
                            Cardinality({v \in Nodes : <<v, p>> \in entries})
                                <= max_sepset_size(depth, num_nodes)
                      /\ skeleton' = BothArcs(num_nodes, edges)
                      /\ sepsets' = SepDict(num_nodes, edges, missing, entries)
            /\ pc' = "sepsets"
            /\ UNCHANGED raised
    /\ UNCHANGED <<num_nodes, separation_sets, dag, dag2, dag_in,
                   graph_changed, todo, calls, adj_matrix, indep_test,
                   GPU_ACCELERATION_AVAILABLE, depth, entry, message, result,
                   run, first_matrix>>

\* cmiknn_gpu from the conversion of the dictionary to the call of
\* orient_v_structure: np.full raises ValueError for a negative
\* max_sepset_size (a single variable); else the store is filled and dag is
\* built from the skeleton.
ConvertSeparationSets ==
    /\ pc = "sepsets"
    /\ UNCHANGED <<num_nodes, skeleton, graph_changed, calls, adj_matrix,
                   indep_test, GPU_ACCELERATION_AVAILABLE, depth, entry,
                   message, effects, result, sepsets, run, first_matrix>>
    /\ IF max_sepset_size(depth, num_nodes) < 0
       THEN /\ raised' = "ValueError"
            /\ pc' = "raised"
            /\ UNCHANGED <<separation_sets, dag, dag2, dag_in, todo>>
       ELSE /\ separation_sets' = ConvertSepsets(num_nodes, sepsets)
            /\ dag' = skeleton
            /\ dag2' = skeleton
            /\ dag_in' = skeleton
            /\ todo' = OrientTriples'
            /\ pc' = "orient"
            /\ UNCHANGED raised

\* cmiknn_gpu returns adj_matrix and info.
ReturnMatrix ==
    /\ pc = "done"
    /\ entry \in {"accelerated_pc", "cmiknn_gpu"}
    /\ result' = "adj_matrix"
    /\ pc' = "returned"
    /\ UNCHANGED <<num_nodes, skeleton, separation_sets, dag, dag2, dag_in,
                   graph_changed, todo, calls, adj_matrix, indep_test,
                   GPU_ACCELERATION_AVAILABLE, depth, entry, raised, message,
                   effects, sepsets, run, first_matrix>>

\* The pipeline is run a second time on the same skeleton and the same
\* separation sets: dag is built anew from the skeleton, and the matrix of
\* the first run is kept for comparison.
SecondRun ==
    /\ pc = "done"
    /\ run = 1
    /\ run' = 2
    /\ first_matrix' = adj_matrix
    /\ UNCHANGED <<num_nodes, skeleton, separation_sets, sepsets, indep_test,
                   GPU_ACCELERATION_AVAILABLE, depth, entry, raised, message,
                   effects, result>>
    /\ dag' = skeleton
    /\ dag2' = skeleton
    /\ dag_in' = skeleton
    /\ graph_changed' = FALSE
    /\ todo' = OrientTriples'
    /\ pc' = "orient"
    /\ calls' = 0
    /\ adj_matrix' = ZeroMatrix

\* The pipeline: orient_v_structure(dag, separation_sets); apply_rules(dag);
\* the encoder.
Next ==
    \/ OrientStep
    \/ OrientDone
    \/ Rule1Step
    \/ Rule1Done
    \/ Rule2Step
    \/ Rule2Done
    \/ Rule3Step
    \/ Rule3Done
    \/ Encode

\* A step of the while loop of apply_rules.
ApplyRulesStep ==
    \/ Rule1Step
    \/ Rule1Done
    \/ Rule2Step
    \/ Rule2Done
    \/ Rule3Step
    \/ Rule3Done

\* apply_rules called on a graph, the encoder, and apply_rules called again
\* on the graph it returned.
RulesNext ==
    \/ Call
    \/ ApplyRulesStep
    \/ Encode
    \/ ReRun
    \/ Returned

\* The pipeline, and the pipeline once more on the same input.
TwoRunsNext ==
    \/ Next
    \/ SecondRun

\* A call of accelerated_pc or cmiknn_gpu from its first line to its return
\* or its exception.
DispatchNext ==
    \/ accelerated_pc
    \/ fisherz_gpu_gpucsl
    \/ chi_square_gpu_gpucsl
    \/ cmiknn_gpu
    \/ ConvertSeparationSets
    \/ Next
    \/ ReturnMatrix

Spec == Init /\ [][Next]_vars

SpecDispatch == InitDispatch /\ [][DispatchNext]_vars

SpecTwoRuns == Init /\ [][TwoRunsNext]_vars

SpecRules == InitRules /\ [][RulesNext]_vars

\* apply_rules is sequential code that nothing suspends: while a step of its
\* loop is enabled, a step of its loop is eventually taken.
FairSpecRules == InitRules /\ [][RulesNext]_vars /\ WF_vars(ApplyRulesStep)

----------------------------------------------------------------------------
(* orient_v_structure with its triples processed in an arbitrary order.    *)

\* The whole loop of orient_v_structure: the body for triples[k], ... in
\* this order, starting from the graph g.
RECURSIVE OrientLoop(_, _, _)
OrientLoop(g, triples, k) ==
    IF k > Len(triples) THEN g
    ELSE OrientLoop(OrientBody(g, triples[k][1], triples[k][2], triples[k][3]),
                    triples, k + 1)

\* The sequence s without its k-th element.
RemoveAt(s, k) == SubSeq(s, 1, k - 1) \o SubSeq(s, k + 1, Len(s))

InitAnyOrder ==
    /\ num_nodes \in 1 .. MaxOrderNodes
    /\ Init

\* One execution of the loop body, for any triple not yet processed.
OrientAnyStep ==
    /\ pc = "orient"
    /\ \E k \in 1 .. Len(todo) :
         /\ dag' = OrientBody(dag, todo[k][1], todo[k][2], todo[k][3])
         /\ todo' = RemoveAt(todo, k)
    /\ UNCHANGED callVars
    /\ UNCHANGED <<num_nodes, skeleton, separation_sets, dag2, dag_in,
                   graph_changed, pc, calls, adj_matrix>>

AnyOrderNext ==
    \/ OrientAnyStep
    \/ OrientDone

SpecAnyOrder == InitAnyOrder /\ [][AnyOrderNext]_vars

----------------------------------------------------------------------------
(* Vocabulary of the properties.                                           *)

\* The pair has at least one arc.
Adjacent(g, a, b) == <<a, b>> \in g \/ <<b, a>> \in g

\* The edge has the single arc a -> b.
SingleArc(g, a, b) == <<a, b>> \in g /\ <<b, a>> \notin g

\* The edge still has both arcs.
BothWays(g, a, b) == <<a, b>> \in g /\ <<b, a>> \in g

InApplyRules == pc \in {"rule1", "rule2", "rule3"}

----------------------------------------------------------------------------
\* C1: skeleton preservation. In every state of the pipeline a pair of
\* distinct vertices has at least one arc in dag exactly if it is adjacent
\* in the skeleton, no vertex has a self-loop, and once the encoder has run
\* the matrix entry of a pair is non-zero exactly if the pair is adjacent
\* in the skeleton.
SkeletonPreserved ==
    /\ \A i \in Nodes : \A j \in Nodes :
         Adjacent(dag, i, j) <=> (i # j /\ <<i, j>> \in skeleton)
    /\ pc = "done" =>
         \A i \in Nodes : \A j \in Nodes :
            (adj_matrix[i][j] # 0) <=> (i # j /\ <<i, j>> \in skeleton)

\* A finished run in which both phases oriented edges and some pair is not
\* adjacent.
SkeletonPreservedWitness ==
    /\ pc = "done"
    /\ dag_in # skeleton
    /\ dag # dag_in
    /\ \E i \in Nodes : \E j \in Nodes : i # j /\ <<i, j>> \notin skeleton

----------------------------------------------------------------------------
\* C2: apply_rules terminates. Whenever a call of apply_rules is scanning,
\* it eventually returns.
ApplyRulesTerminates == InApplyRules ~> (pc = "return")

\* A call that rescanned (a pass changed the graph) and has returned.
ApplyRulesTerminatesWitness ==
    /\ pc = "return"
    /\ dag # dag_in

----------------------------------------------------------------------------
\* C3: on return the graph is a fixpoint of the three rules.
Rule1Instance(g, v_1, v_2, v_3) ==
    /\ v_1 # v_3
    /\ SingleArc(g, v_1, v_2)
    /\ BothWays(g, v_2, v_3)
    /\ ~Adjacent(g, v_1, v_3)

Rule2Instance(g, v_1, v_2, v_3) ==
    /\ SingleArc(g, v_1, v_3)
    /\ SingleArc(g, v_3, v_2)
    /\ BothWays(g, v_1, v_2)

Rule3Instance(g, v_1, v_2, v_3, v_4) ==
    /\ v_3 # v_4
    /\ BothWays(g, v_1, v_2)
    /\ ~Adjacent(g, v_3, v_4)
    /\ BothWays(g, v_1, v_3)
    /\ BothWays(g, v_1, v_4)
    /\ SingleArc(g, v_3, v_2)
    /\ SingleArc(g, v_4, v_2)

RuleInstanceLeft(g) ==
    \/ \E v_1 \in Nodes, v_2 \in Nodes, v_3 \in Nodes :
          Rule1Instance(g, v_1, v_2, v_3) \/ Rule2Instance(g, v_1, v_2, v_3)
    \/ \E v_1 \in Nodes, v_2 \in Nodes, v_3 \in Nodes, v_4 \in Nodes :
          Rule3Instance(g, v_1, v_2, v_3, v_4)

\* When apply_rules has returned, no instance of Rule 1, Rule 2 or Rule 3 is
\* left in the graph.
FixpointOnReturn == pc \in {"return", "done"} => ~RuleInstanceLeft(dag)

\* A call that started with a rule instance in its input and has returned.
FixpointOnReturnWitness ==
    /\ pc = "return"
    /\ RuleInstanceLeft(dag_in)

----------------------------------------------------------------------------
\* C4: fixpoint idempotence. When the second call of apply_rules, made on
\* the graph the first call returned, has returned, the graph is the one it
\* was called with.
RerunChangesNothing == (calls = 2 /\ pc \in {"return", "done"}) => dag = dag_in

\* A second call has returned on a graph in which some edge is oriented and
\* some edge is undirected.
RerunChangesNothingWitness ==
    /\ calls = 2
    /\ pc = "done"
    /\ \E a \in Nodes, b \in Nodes : SingleArc(dag, a, b)
    /\ \E a \in Nodes, b \in Nodes : BothWays(dag, a, b)

----------------------------------------------------------------------------
(* Triples of the skeleton.                                                *)

\* v_1 - v_2 - v_3 with v_1 and v_3 not adjacent.
UnshieldedTriple(v_1, v_2, v_3) ==
    /\ v_1 # v_3
    /\ <<v_1, v_2>> \in skeleton
    /\ <<v_2, v_3>> \in skeleton
    /\ <<v_1, v_3>> \notin skeleton

\* An unshielded triple whose middle vertex is not in the separation set of
\* its end pair.
ColliderTriple(v_1, v_2, v_3) ==
    /\ UnshieldedTriple(v_1, v_2, v_3)
    /\ v_2 \notin separation_sets[v_1][v_3]

\* orient_v_structure has returned; dag_in is the graph it returned.
AfterOrient == pc # "orient"

\* The end e of a collider triple with middle v_2 is itself the middle of a
\* collider triple that has v_2 as an end and is processed later.
Overwritten(e, v_2) == e > v_2 /\ \E x \in Nodes : ColliderTriple(v_2, e, x)

----------------------------------------------------------------------------
\* C5 as stated: after orient_v_structure every unshielded triple whose
\* middle vertex is not in the separation set of its ends is a collider,
\* v_1 -> v_2 <- v_3 with neither reverse arc.
EveryColliderTripleOriented ==
    AfterOrient =>
        \A v_1 \in Nodes, v_2 \in Nodes, v_3 \in Nodes :
            ColliderTriple(v_1, v_2, v_3) =>
                SingleArc(dag_in, v_1, v_2) /\ SingleArc(dag_in, v_3, v_2)

\* C5 amended: after orient_v_structure every edge e - v_2 of such a triple
\* has the single arc e -> v_2, except when e has the larger index and is
\* itself the middle vertex of such a triple with end v_2: then the edge has
\* the single arc v_2 -> e.
ColliderTripleOrientedLastWins ==
    AfterOrient =>
        \A v_1 \in Nodes, v_2 \in Nodes, v_3 \in Nodes :
            ColliderTriple(v_1, v_2, v_3) =>
                IF Overwritten(v_1, v_2)
                THEN SingleArc(dag_in, v_2, v_1)
                ELSE SingleArc(dag_in, v_1, v_2)

\* orient_v_structure has returned on an input with a collider triple that
\* is fully oriented and one of which an edge was overwritten.
ColliderTripleOrientedWitness ==
    /\ AfterOrient
    /\ \E v_1 \in Nodes, v_2 \in Nodes, v_3 \in Nodes :
          /\ ColliderTriple(v_1, v_2, v_3)
          /\ ~Overwritten(v_1, v_2)
          /\ ~Overwritten(v_3, v_2)
    /\ \E v_1 \in Nodes, v_2 \in Nodes, v_3 \in Nodes :
          ColliderTriple(v_1, v_2, v_3) /\ Overwritten(v_1, v_2)

----------------------------------------------------------------------------
\* v has two single-arc parents that are not adjacent.
UnshieldedCollider(g, v) ==
    \E x \in Nodes, y \in Nodes :
        /\ x # y
        /\ SingleArc(g, x, v)
        /\ SingleArc(g, y, v)
        /\ ~Adjacent(g, x, y)

\* The body of orient_v_structure ran for a triple with middle vertex v.
OrientedAsCollider(v) ==
    \E v_1 \in Nodes, v_3 \in Nodes : ColliderTriple(v_1, v, v_3)

\* C6 as stated: when apply_rules has returned, every unshielded collider
\* of the graph is a vertex that orient_v_structure oriented as a collider.
NoNewCollider ==
    pc \in {"return", "done"} =>
        \A v \in Nodes : UnshieldedCollider(dag, v) => OrientedAsCollider(v)

\* The orders of n vertices: every assignment of distinct ranks.
VertexOrders ==
    SelectSeq([n \in 1 .. NodeLimit |-> Permutations(0 .. (n - 1))],
              LAMBDA x : TRUE)

\* The skeleton and the separation sets are those of a directed acyclic
\* graph: some order of the vertices orients the skeleton so that the middle
\* vertex of an unshielded triple is outside the separation set of the ends
\* exactly if both ends precede it.
DagInput ==
    \E rank \in VertexOrders[num_nodes] :
        \A v_1 \in Nodes, v_2 \in Nodes, v_3 \in Nodes :
            UnshieldedTriple(v_1, v_2, v_3) =>
                ((v_2 \notin separation_sets[v_1][v_3])
                    <=> (rank[v_1] < rank[v_2] /\ rank[v_3] < rank[v_2]))

\* C6 amended: if the skeleton and the separation sets are those of a
\* directed acyclic graph, then when apply_rules has returned every
\* unshielded collider of the graph is a vertex that orient_v_structure
\* oriented as a collider.
NoNewColliderOnDagInput ==
    pc \in {"return", "done"} =>
        \A v \in Nodes :
            (UnshieldedCollider(dag, v) /\ ~OrientedAsCollider(v)) => ~DagInput

\* A finished run on the input of a directed acyclic graph in which the
\* rules oriented an edge into the middle vertex of an unshielded triple
\* that orient_v_structure did not orient as a collider.
NoNewColliderWitness ==
    /\ pc = "done"
    /\ \E v \in Nodes :
          /\ ~OrientedAsCollider(v)
          /\ \E x \in Nodes, y \in Nodes : UnshieldedTriple(x, v, y)
          /\ \E x \in Nodes : SingleArc(dag, x, v) /\ BothWays(dag_in, x, v)
    /\ DagInput

----------------------------------------------------------------------------
\* C7: during apply_rules an edge that a rule application has oriented (it
\* had both arcs when apply_rules was called and has the single arc a -> b
\* now) is not given the opposite single arc b -> a by any later step.
NoReorientation ==
    [][InApplyRules =>
          \A a \in Nodes, b \in Nodes :
              (SingleArc(dag, a, b) /\ BothWays(dag_in, a, b))
                  => ~SingleArc(dag', b, a)]_vars

----------------------------------------------------------------------------
\* C8: the encoded matrix of the final graph has entries in {-1, 0, 1}; both
\* entries of a non-adjacent pair are 0, both entries of a pair with both
\* arcs are -1, and a pair with the single arc i -> j has matrix[i][j] = -1
\* and matrix[j][i] = 1.
EncodingOfFinalGraph ==
    pc = "done" =>
        \A i \in Nodes, j \in Nodes :
            /\ adj_matrix[i][j] \in {-1, 0, 1}
            /\ ~Adjacent(dag, i, j) => (adj_matrix[i][j] = 0 /\ adj_matrix[j][i] = 0)
            /\ BothWays(dag, i, j) => (adj_matrix[i][j] = -1 /\ adj_matrix[j][i] = -1)
            /\ SingleArc(dag, i, j) => (adj_matrix[i][j] = -1 /\ adj_matrix[j][i] = 1)

\* An encoded final graph with a non-adjacent pair, an undirected edge and
\* an oriented edge.
EncodingOfFinalGraphWitness ==
    /\ pc = "done"
    /\ \E i \in Nodes, j \in Nodes : i # j /\ ~Adjacent(dag, i, j)
    /\ \E i \in Nodes, j \in Nodes : BothWays(dag, i, j)
    /\ \E i \in Nodes, j \in Nodes : SingleArc(dag, i, j)

----------------------------------------------------------------------------
\* The chain X1 - X2 - X3 on three variables.
ChainSkeleton ==
    /\ num_nodes = 3
    /\ skeleton = BothArcs(3, {{0, 1}, {1, 2}})

\* C9 as stated: for the chain with an empty sepset(X1, X3) the output has
\* [0][1] = 1, [1][0] = -1, [2][1] = 1 and [1][2] = -1.
ChainColliderMatrixAsStated ==
    (pc = "done" /\ ChainSkeleton /\ separation_sets[0][2] = {}) =>
        /\ adj_matrix[0][1] = 1
        /\ adj_matrix[1][0] = -1
        /\ adj_matrix[2][1] = 1
        /\ adj_matrix[1][2] = -1

\* C9 amended: for the chain with an empty sepset(X1, X3) the output is the
\* collider at X2 in the encoding of the encoder, tail mark -1 in the row of
\* the parent and arrowhead 1 in the row of X2: [0][1] = -1, [1][0] = 1,
\* [2][1] = -1 and [1][2] = 1.
ChainColliderMatrix ==
    (pc = "done" /\ ChainSkeleton /\ separation_sets[0][2] = {}) =>
        /\ adj_matrix[0][1] = -1
        /\ adj_matrix[1][0] = 1
        /\ adj_matrix[2][1] = -1
        /\ adj_matrix[1][2] = 1
        /\ dag = {<<0, 1>>, <<2, 1>>}

\* The pipeline has finished on the chain with an empty sepset(X1, X3).
ChainColliderWitness ==
    /\ pc = "done"
    /\ ChainSkeleton
    /\ separation_sets[0][2] = {}

----------------------------------------------------------------------------
\* The middle vertex of every unshielded triple is in the separation set of
\* the triple's end pair.
AllMiddlesSeparate ==
    \A v_1 \in Nodes, v_2 \in Nodes, v_3 \in Nodes :
        UnshieldedTriple(v_1, v_2, v_3) => v_2 \in separation_sets[v_1][v_3]

\* C10: if the middle vertex of every unshielded triple is in the separation
\* set of the end pair, the finished pipeline has oriented nothing: dag still
\* has both arcs of every skeleton edge and both matrix entries of every
\* skeleton edge are -1.
NothingOriented ==
    (pc = "done" /\ AllMiddlesSeparate) =>
        /\ dag = skeleton
        /\ \A i \in Nodes, j \in Nodes :
              <<i, j>> \in skeleton => adj_matrix[i][j] = -1

\* The pipeline has finished on the chain with sepset(X1, X3) = {X2}.
NothingOrientedWitness ==
    /\ pc = "done"
    /\ ChainSkeleton
    /\ separation_sets[0][2] = {1}
    /\ AllMiddlesSeparate

----------------------------------------------------------------------------
(* Decoding a matrix of edge marks into arcs.                              *)

\* The pairs whose two entries are both -1, in both directions.
DecodeUndirected(m) ==
    {e \in Arcs : m[e[1]][e[2]] = -1 /\ m[e[2]][e[1]] = -1}

\* The decode rule as stated: matrix[i][j] = 1 is the arc i -> j.
DecodeAsStated(m) ==
    {e \in Arcs : m[e[1]][e[2]] = 1} \cup DecodeUndirected(m)

\* The decode rule of the encoder's convention: matrix[j][i] = 1 together
\* with matrix[i][j] = -1 is the arc i -> j.
DecodeMarks(m) ==
    {e \in Arcs : m[e[2]][e[1]] = 1 /\ m[e[1]][e[2]] = -1}
        \cup DecodeUndirected(m)

\* C11 as stated: decoding the output matrix by the rule "matrix[i][j] = 1
\* is the arc i -> j, two entries -1 are an undirected edge" and encoding
\* the decoded arcs again yields the output matrix.
RoundTripAsStated ==
    pc = "done" => EncodeMatrix(DecodeAsStated(adj_matrix)) = adj_matrix

\* C11 amended: decoding the output matrix by the rule "matrix[j][i] = 1
\* with matrix[i][j] = -1 is the arc i -> j, two entries -1 are an
\* undirected edge" yields the arcs of the final graph, and encoding the
\* decoded arcs again yields the output matrix.
RoundTrip ==
    pc = "done" =>
        /\ DecodeMarks(adj_matrix) = dag
        /\ EncodeMatrix(DecodeMarks(adj_matrix)) = adj_matrix

\* An output matrix with the marks of an oriented edge, of an undirected
\* edge and of a non-adjacent pair.
RoundTripWitness ==
    /\ pc = "done"
    /\ \E i \in Nodes, j \in Nodes :
          adj_matrix[i][j] = -1 /\ adj_matrix[j][i] = 1
    /\ \E i \in Nodes, j \in Nodes :
          adj_matrix[i][j] = -1 /\ adj_matrix[j][i] = -1
    /\ \E i \in Nodes, j \in Nodes :
          i # j /\ adj_matrix[i][j] = 0 /\ adj_matrix[j][i] = 0

----------------------------------------------------------------------------
----------------------------------------------------------------------------
(* Vocabulary of the properties of accelerated_pc.                         *)

\* The identifiers for which accelerated_pc has a branch.
SupportedIdentifiers == {"fisherz", "chisq", "cmiknn"}

\* The identifiers the docstring of accelerated_pc lists.
DocumentedIdentifiers == {"fisherz", "chi_square", "kci", "cmiknn"}

\* No backend was called, no global state or GPU initialised, no skeleton
\* searched, no orientation step taken, and nothing returned.
NothingExecuted ==
    /\ effects = <<>>
    /\ skeleton = {}
    /\ dag = {}
    /\ calls = 0
    /\ result = "none"

\* The call has ended, by a return or by an exception.
CallEnded == pc \in {"raised", "returned"}

----------------------------------------------------------------------------
----------------------------------------------------------------------------
\* C14: when the GPU modules are not loaded, a request for 'cmiknn' through
\* accelerated_pc or cmiknn_gpu executes nothing and ends with an
\* ImportError; it never reaches another backend.
GpuUnavailableFailsFast ==
    (indep_test = "cmiknn" /\ ~GPU_ACCELERATION_AVAILABLE) =>
        /\ NothingExecuted
        /\ pc \in {"accelerated_pc", "cmiknn_gpu", "raised"}
        /\ pc = "raised" => raised = "ImportError"

\* cmiknn_gpu, called directly without the GPU modules, has raised.
GpuUnavailableFailsFastWitness ==
    /\ entry = "cmiknn_gpu"
    /\ ~GPU_ACCELERATION_AVAILABLE
    /\ pc = "raised"
    /\ raised = "ImportError"

----------------------------------------------------------------------------
\* C15: no identifier of the documented set {'fisherz', 'chi_square', 'kci',
\* 'cmiknn'} is rejected by accelerated_pc as unsupported.
DocumentedIdentifiersAccepted ==
    (entry = "accelerated_pc" /\ indep_test \in DocumentedIdentifiers) =>
        raised # "ValueError"

----------------------------------------------------------------------------
\* C16: when a call of accelerated_pc with a supported identifier has ended
\* after its backend computed a graph, it has returned the matrix, whose
\* entries are in {-1, 0, 1}, and raised nothing.
SupportedBackendReturnsMatrix ==
    (/\ entry = "accelerated_pc"
     /\ indep_test \in SupportedIdentifiers
     /\ CallEnded
     /\ effects # <<>>) =>
        /\ raised = "none"
        /\ result = "adj_matrix"
        /\ \A i \in Nodes, j \in Nodes : adj_matrix[i][j] \in {-1, 0, 1}

----------------------------------------------------------------------------
\* The end pair of some unshielded triple has no entry in the dictionary of
\* separation sets.
MissingSepset ==
    \E v_1 \in Nodes, v_2 \in Nodes, v_3 \in Nodes :
        UnshieldedTriple(v_1, v_2, v_3) /\ {v_1, v_3} \notin DOMAIN sepsets

\* C17: if the end pair of an unshielded triple has no recorded separation
\* set, orient_v_structure orients nothing and the run does not get past it.
MissingSepsetAborts ==
    (entry \in {"accelerated_pc", "cmiknn_gpu"} /\ MissingSepset) =>
        /\ dag \in {{}, skeleton}
        /\ pc \in {"sepsets", "orient", "raised"}

----------------------------------------------------------------------------
\* C18: a call with a depth below -1 returns nothing and calls no backend.
NegativeDepthRejected ==
    depth < -1 => (result = "none" /\ effects = <<>>)

----------------------------------------------------------------------------
\* C19: Rule 1 scenario. When apply_rules, called on a graph of four
\* variables whose only edges are the single arc A -> B and the undirected
\* edge B - C, has returned, the graph has exactly the arcs A -> B and
\* B -> C.
Rule1Scenario ==
    \A A \in Nodes, B \in Nodes, C \in Nodes :
        (/\ num_nodes = 4
         /\ A # B /\ B # C /\ A # C
         /\ calls = 1
         /\ pc \in {"return", "done"}
         /\ dag_in = {<<A, B>>, <<B, C>>, <<C, B>>}) =>
            dag = {<<A, B>>, <<B, C>>}

\* The first call has returned on the graph 0 -> 1 - 2 of four variables.
Rule1ScenarioWitness ==
    /\ num_nodes = 4
    /\ calls = 1
    /\ pc = "return"
    /\ dag_in = {<<0, 1>>, <<1, 2>>, <<2, 1>>}

----------------------------------------------------------------------------
\* C20: Rule 2 scenario. When apply_rules, called on a graph whose edges are
\* the single arcs A -> C and C -> B and the undirected edge A - B, has
\* returned, the graph has exactly the arcs A -> C, C -> B and A -> B.
Rule2Scenario ==
    \A A \in Nodes, B \in Nodes, C \in Nodes :
        (/\ A # B /\ B # C /\ A # C
         /\ calls = 1
         /\ pc \in {"return", "done"}
         /\ dag_in = {<<A, C>>, <<C, B>>, <<A, B>>, <<B, A>>}) =>
            dag = {<<A, C>>, <<C, B>>, <<A, B>>}

\* The first call has returned on the graph 0 -> 2 -> 1, 0 - 1.
Rule2ScenarioWitness ==
    /\ calls = 1
    /\ pc = "return"
    /\ dag_in = {<<0, 2>>, <<2, 1>>, <<0, 1>>, <<1, 0>>}

----------------------------------------------------------------------------
(* Directed cycles.                                                        *)

\* The arcs of g whose reverse arc is not in g.
SingleArcs(g) == {e \in g : <<e[2], e[1]>> \notin g}

\* g has a cycle made only of single-direction arcs: some non-empty set of
\* vertices in which every vertex has a single arc to another member.
HasDirectedCycle(g) ==
    \E S \in (SUBSET Nodes) \ {{}} :
        \A v \in S : \E w \in S : <<v, w>> \in SingleArcs(g)

\* C21 as stated: if the graph apply_rules was called with has no cycle of
\* single-direction arcs, the graph it returns has none.
NoCycleIntroduced ==
    (pc \in {"return", "done"} /\ ~HasDirectedCycle(dag_in)) =>
        ~HasDirectedCycle(dag)

\* C21 amended: if the skeleton and the separation sets are those of a
\* directed acyclic graph, the graph apply_rules returns in the pipeline has
\* no cycle of single-direction arcs.
NoCycleOnDagInput ==
    (pc \in {"return", "done"} /\ HasDirectedCycle(dag)) => ~DagInput

\* A finished run on the input of a directed acyclic graph in which a rule
\* oriented the edge a - c along a path a -> b -> c of single arcs.
NoCycleWitness ==
    /\ pc = "done"
    /\ DagInput
    /\ \E a \in Nodes, b \in Nodes, c \in Nodes :
          /\ SingleArc(dag, a, b)
          /\ SingleArc(dag, b, c)
          /\ SingleArc(dag, a, c)
          /\ BothWays(dag_in, a, c)

----------------------------------------------------------------------------
\* The next step of apply_rules executes a rule body: the add / remove pair
\* and graph_changed = True.
RuleApplied ==
    \/ /\ pc = "rule1"
       /\ todo # <<>>
       /\ undirected(dag, Head(todo)[2], Head(todo)[3])
    \/ /\ pc \in {"rule2", "rule3"}
       /\ todo # <<>>

\* C22: every rule application removes exactly one arc and adds none: the
\* arc set after it is the arc set before it less one arc.
EachApplicationRemovesOneArc ==
    [][RuleApplied => (dag' \subseteq dag /\ Cardinality(dag \ dag') = 1)]_vars

----------------------------------------------------------------------------
\* The next step executes the loop body of orient_v_structure.
OrientApplied == pc = "orient" /\ todo # <<>>

\* C23 as stated: at every step of orient_v_structure the arc set is a
\* subset of the arc set before the step.
OrientOnlyRemoves == [][OrientApplied => dag' \subseteq dag]_vars

\* C23 amended: at every step of orient_v_structure, for the triple
\* (v_1, v_2, v_3) being oriented, the arc set stays within the arcs of the
\* skeleton, the only arcs removed are v_2 -> v_1 and v_2 -> v_3, the only
\* arcs put back are v_1 -> v_2 and v_3 -> v_2 (removed while an earlier
\* triple with middle vertex v_1 or v_3 was oriented), and after the step
\* both edges have the single arc into v_2.
OrientStepEffect ==
    [][OrientApplied =>
          /\ dag' \subseteq skeleton
          /\ (dag \ dag') \subseteq {<<Head(todo)[2], Head(todo)[1]>>,
                                      <<Head(todo)[2], Head(todo)[3]>>}
          /\ (dag' \ dag) \subseteq {<<Head(todo)[1], Head(todo)[2]>>,
                                      <<Head(todo)[3], Head(todo)[2]>>}
          /\ SingleArc(dag', Head(todo)[1], Head(todo)[2])
          /\ SingleArc(dag', Head(todo)[3], Head(todo)[2])]_vars

\* orient_v_structure has processed its last triple, and an arc v_2 -> v_1
\* that was removed for a triple with middle vertex v_2 is back in the graph,
\* put back for a later triple with middle vertex v_1.
OrientPutsBackWitness ==
    /\ pc = "orient"
    /\ todo = <<>>
    /\ \E v_1 \in Nodes, v_2 \in Nodes, v_3 \in Nodes, x \in Nodes :
          /\ v_1 > v_2
          /\ ColliderTriple(v_1, v_2, v_3)
          /\ ColliderTriple(v_2, v_1, x)
          /\ SingleArc(dag, v_2, v_1)

----------------------------------------------------------------------------
\* C24 as stated: whatever the order in which the triples were processed,
\* orient_v_structure ends with the arc set that the order of the code
\* yields.
AnyOrderSameResult ==
    (pc = "orient" /\ todo = <<>>) =>
        dag = OrientLoop(skeleton, OrientTriples, 1)

\* Two collider triples disagree on an edge: the middle vertex of each is an
\* end of the other.
ConflictingTriples ==
    \E v_1 \in Nodes, v_2 \in Nodes, v_3 \in Nodes, x \in Nodes :
        ColliderTriple(v_1, v_2, v_3) /\ ColliderTriple(v_2, v_1, x)

\* C24 amended: if no two collider triples disagree on an edge, then after
\* any triples were processed in any order, processing the remaining ones
\* yields the arc set that the order of the code yields; in particular every
\* complete processing order ends with that arc set.
AnyOrderSameResultWithoutConflict ==
    (pc = "orient" /\ ~ConflictingTriples) =>
        OrientLoop(dag, todo, 1) = OrientLoop(skeleton, OrientTriples, 1)

\* All triples but the first of the code's order have been processed, there
\* are collider triples with different middle vertices, and none disagree.
AnyOrderWitness ==
    /\ pc = "orient"
    /\ ~ConflictingTriples
    /\ Len(OrientTriples) >= 4
    /\ todo = <<OrientTriples[1]>>
    /\ \E t \in 1 .. Len(OrientTriples) :
          OrientTriples[t][2] # OrientTriples[1][2]

----------------------------------------------------------------------------
\* An unshielded triple whose middle vertex is in the separation set of its
\* end pair.
SeparatedTriple(v_1, v_2, v_3) ==
    /\ UnshieldedTriple(v_1, v_2, v_3)
    /\ v_2 \in separation_sets[v_1][v_3]

\* Both edges of the triple have the single arc into the middle vertex.
ColliderAt(g, v_1, v_2, v_3) ==
    SingleArc(g, v_1, v_2) /\ SingleArc(g, v_3, v_2)

\* Some separated triple is a collider in the graph orient_v_structure
\* returned (dag_in) or in the graph apply_rules returned (dag).
SeparatedTripleIsCollider ==
    \E v_1 \in Nodes, v_2 \in Nodes, v_3 \in Nodes :
        /\ SeparatedTriple(v_1, v_2, v_3)
        /\ \/ ColliderAt(dag_in, v_1, v_2, v_3)
           \/ ColliderAt(dag, v_1, v_2, v_3)

\* C25 as stated: when apply_rules has returned, no unshielded triple whose
\* middle vertex is in the separation set of its ends is a collider, neither
\* in the graph orient_v_structure returned nor in the graph apply_rules
\* returned.
SeparatedTripleNeverCollider == pc = "return" => ~SeparatedTripleIsCollider

\* C25 amended: if the skeleton and the separation sets are those of a
\* directed acyclic graph, then neither after orient_v_structure nor after
\* apply_rules is an unshielded triple whose middle vertex is in the
\* separation set of its ends a collider.
SeparatedTripleNeverColliderOnDagInput ==
    (pc = "return" /\ SeparatedTripleIsCollider) => ~DagInput

\* A finished run on the input of a directed acyclic graph with a separated
\* triple v_1 - v_2 - v_3 that the run oriented as v_1 -> v_2 -> v_3.
SeparatedTripleWitness ==
    /\ pc = "done"
    /\ DagInput
    /\ \E v_1 \in Nodes, v_2 \in Nodes, v_3 \in Nodes :
          /\ SeparatedTriple(v_1, v_2, v_3)
          /\ SingleArc(dag, v_1, v_2)
          /\ SingleArc(dag, v_2, v_3)

----------------------------------------------------------------------------
(* The processing order of orient_v_structure.                             *)

\* The triples for which the body runs, in ascending order of v_1, then
\* v_2, then v_3.
LexOrientTriples ==
    SelectSeq(TripleOrderRowMajor[num_nodes],
              LAMBDA t : OrientCond(t[1], t[2], t[3]))

\* The triple s comes before the triple t in ascending order of v_2, then
\* v_1, then v_3.
MiddleFirstBefore(s, t) ==
    \/ s[2] < t[2]
    \/ s[2] = t[2] /\ s[1] < t[1]
    \/ s[2] = t[2] /\ s[1] = t[1] /\ s[3] < t[3]

\* orient_v_structure has processed its last triple.
OrientFinished == pc = "orient" /\ todo = <<>>

\* C26 as stated: orient_v_structure ends with the arc set that processing
\* the triples in ascending order of v_1, then v_2, then v_3 yields.
OrientInLexOrder ==
    OrientFinished => dag = OrientLoop(skeleton, LexOrientTriples, 1)

\* C26 amended: orient_v_structure processes the triples in ascending order
\* of the middle vertex v_2, then v_1, then v_3: the triples still to be
\* processed are in that order, every triple already processed comes before
\* them and has its arc v_1 -> v_2 in place unless v_1 is the larger vertex
\* (whose own triples come later), and where two collider triples disagree
\* on an edge a - b with a < b the edge ends as a -> b, the orientation of
\* the triple with the larger middle vertex.
OrientInMiddleFirstOrder ==
    pc = "orient" =>
        /\ \A i \in 1 .. Len(todo), j \in 1 .. Len(todo) :
              i < j => MiddleFirstBefore(todo[i], todo[j])
        /\ \A v_1 \in Nodes, v_2 \in Nodes, v_3 \in Nodes :
              (OrientCond(v_1, v_2, v_3) /\ todo # <<>>) =>
                  \/ \E i \in 1 .. Len(todo) : todo[i] = <<v_1, v_2, v_3>>
                  \/ /\ MiddleFirstBefore(<<v_1, v_2, v_3>>, Head(todo))
                     /\ (SingleArc(dag, v_1, v_2) \/ v_1 > v_2)
        /\ todo = <<>> =>
              \A a \in Nodes, b \in Nodes, x \in Nodes, y \in Nodes :
                  (a < b /\ ColliderTriple(b, a, x) /\ ColliderTriple(a, b, y))
                      => SingleArc(dag, a, b)

\* orient_v_structure has processed its last triple on an input on which
\* the ascending order of v_1, v_2, v_3 yields another arc set.
OrientOrderWitness ==
    /\ OrientFinished
    /\ dag # OrientLoop(skeleton, LexOrientTriples, 1)

----------------------------------------------------------------------------
\* The candidate set C of Rule 3 for the undirected edge v_1 - v_2: the
\* undirected neighbours of v_1 that have the single arc into v_2.
CandidatesC(g, v_1, v_2) ==
    {c \in Nodes : BothWays(g, v_1, c) /\ SingleArc(g, c, v_2)}

\* C27 as stated: every execution of the body of Rule 3 is for the pair of
\* the first two vertices of the sorted C.
Rule3FirstTwoOnly ==
    [][(pc = "rule3" /\ todo # <<>>) =>
          {Head(todo)[3], Head(todo)[4]}
              = FirstTwo(CandidatesC(dag2, Head(todo)[1], Head(todo)[2]))]_vars

\* C27 amended: Rule 3 tests every pair of C. During the Rule 3 loop every
\* pending execution of the body is for an undirected edge v_1 - v_2 of the
\* snapshot and a non-adjacent pair of its C, and every undirected edge of
\* the snapshot whose C has a non-adjacent pair, whichever members of C they
\* are, is either pending or no longer undirected.
Rule3TestsEveryPair ==
    pc = "rule3" =>
        /\ \A i \in 1 .. Len(todo) :
              Rule3Instance(dag2, todo[i][1], todo[i][2], todo[i][3], todo[i][4])
        /\ \A v_1 \in Nodes, v_2 \in Nodes, v_3 \in Nodes, v_4 \in Nodes :
              Rule3Instance(dag2, v_1, v_2, v_3, v_4) =>
                  \/ \E i \in 1 .. Len(todo) :
                        todo[i][1] = v_1 /\ todo[i][2] = v_2
                  \/ ~BothWays(dag, v_1, v_2)

\* The Rule 3 loop has ended after orienting v_1 -> v_2 for an edge whose C
\* has three members, the first two adjacent and another pair not.
Rule3BeyondFirstTwoWitness ==
    /\ pc = "rule3"
    /\ todo = <<>>
    /\ \E v_1 \in Nodes, v_2 \in Nodes :
          /\ BothWays(dag2, v_1, v_2)
          /\ SingleArc(dag, v_1, v_2)
          /\ Cardinality(CandidatesC(dag2, v_1, v_2)) = 3
          /\ \A c \in FirstTwo(CandidatesC(dag2, v_1, v_2)) :
                \A d \in FirstTwo(CandidatesC(dag2, v_1, v_2)) :
                    c # d => Adjacent(dag2, c, d)

----------------------------------------------------------------------------
\* C28: during a call of apply_rules and on its return, every pair that had
\* exactly the one arc a -> b when apply_rules was called has exactly the
\* arc a -> b.
DirectedInputEdgesKept ==
    (InApplyRules \/ pc \in {"return", "done"}) =>
        \A a \in Nodes, b \in Nodes :
            SingleArc(dag_in, a, b) => SingleArc(dag, a, b)

\* apply_rules has returned on an input with a directed edge a -> b and an
\* undirected edge b - c that the rules oriented.
DirectedInputEdgesKeptWitness ==
    /\ pc = "return"
    /\ \E a \in Nodes, b \in Nodes, c \in Nodes :
          /\ SingleArc(dag_in, a, b)
          /\ BothWays(dag_in, b, c)
          /\ SingleArc(dag, b, c)

----------------------------------------------------------------------------
\* The undirected edges of g: the pairs with both arcs.
UndirectedEdges(g) ==
    {p \in SUBSET Nodes :
        \E a \in Nodes, b \in Nodes : a # b /\ p = {a, b} /\ BothWays(g, a, b)}

NumUndirected(g) == Cardinality(UndirectedEdges(g))

\* C29: no step of apply_rules gives an edge with a single arc its second
\* arc back, so the number of undirected edges never increases; and the step
\* of a pass that sets graph_changed removes an undirected edge, so a pass
\* that ends with graph_changed set (it began with graph_changed = False)
\* ends with strictly fewer undirected edges than it began with.
UndirectedCountDecreases ==
    [][InApplyRules =>
          /\ UndirectedEdges(dag') \subseteq UndirectedEdges(dag)
          /\ (~graph_changed /\ graph_changed') =>
                NumUndirected(dag') < NumUndirected(dag)]_vars

\* A pass is at its end with graph_changed set; the call began with at
\* least three undirected edges and one is left.
UndirectedCountWitness ==
    /\ pc = "rule3"
    /\ todo = <<>>
    /\ graph_changed
    /\ NumUndirected(dag_in) >= 3
    /\ NumUndirected(dag) = 1

----------------------------------------------------------------------------
\* The skeleton edge a - b belongs to a qualifying collider triple: some x
\* is adjacent to one endpoint and not to the other, and the shared endpoint
\* is not in the separation set of the two outer vertices.
InColliderTriple(a, b) ==
    \E x \in Nodes : ColliderTriple(a, b, x) \/ ColliderTriple(b, a, x)

\* C30: at every step of orient_v_structure and when it has processed its
\* last triple, every skeleton edge that belongs to no qualifying collider
\* triple has both its arcs.
EdgesOutsideCollidersKept ==
    pc = "orient" =>
        \A a \in Nodes, b \in Nodes :
            (<<a, b>> \in skeleton /\ ~InColliderTriple(a, b)) =>
                BothWays(dag, a, b)

\* orient_v_structure has processed its last triple after orienting a
\* collider at a, and an edge a - b that belongs to no qualifying collider
\* triple has both arcs.
EdgesOutsideCollidersWitness ==
    /\ OrientFinished
    /\ \E a \in Nodes, b \in Nodes, c \in Nodes :
          /\ <<a, b>> \in skeleton
          /\ ~InColliderTriple(a, b)
          /\ BothWays(dag, a, b)
          /\ SingleArc(dag, c, a)

====
